---- MODULE Spec2Model ----
(***************************************************************************)
(* wdidt ("what did I do today"): the monthly notes file, its day regions  *)
(* and subsections, and the operations that read and rewrite them          *)
(* (utils/fileHandler.js, commands/addTodo.js, commands/addNote.js,        *)
(* commands/carryover, commands/listTodos).                                *)
(*                                                                         *)
(* A file content (a JavaScript string) is modelled by the sequence of     *)
(* lines that content.split('\n') returns: it is never empty, the empty    *)
(* string is <<Blank>>, and a content that ends with '\n' ends with Blank. *)
(* A line is a record: k is the markup shape the regular expressions of    *)
(* the code tell apart, n a number (day of a heading, numeric todo id),    *)
(* s a status or a subsection name, text the free text, ctx the context    *)
(* ids the line carries (link tokens of a todo, title of a context block). *)
(* Line numbers are 1-based here (JavaScript index + 1).                   *)
(***************************************************************************)
EXTENDS Integers, Sequences, FiniteSets, TLC

\* ------------------------------------------------------------------ bounds
MaxDay == 3
MaxSteps == 4
MaxLen == 3
MaxItemLen == 4
MaxAttempts == 3

\* the days 1..LastDayOfMonth fall in month 1, the later ones in month 2
LastDayOfMonth == 2

\* texts a user edits a todo to, and the text a user adds an item with
Texts == {"a", "b"}
AddedTexts == {"b"}
\* the ids the files may hold, and the word triples the generator may draw
CtxIds == {"c1", "c2", "c3"}
Candidates == {"c2", "c3"}
Days == 0..MaxDay
Months == 1..2

\* ------------------------------------------------------------------- lines
Line(k, n, s, text, ctx) == [k |-> k, n |-> n, s |-> s, text |-> text, ctx |-> ctx]

\* ''
Blank == Line("blank", 0, "", "", <<>>)
\* <h2>{long date of day d}</h2>
H2(d) == Line("h2", d, "", "", <<>>)
\* <hr>
Hr == Line("hr", 0, "", "", <<>>)
\* <h3>{name}</h3>
H3(name) == Line("h3", 0, name, "", <<>>)
\* <ac:task-list> and </ac:task-list>
TaskListOpen == Line("tl_open", 0, "", "", <<>>)
TaskListClose == Line("tl_close", 0, "", "", <<>>)
\* <p></p>
EmptyPara == Line("p", 0, "", "", <<>>)
\* <ac:task><ac:task-id>n</ac:task-id><ac:task-status>s</ac:task-status>
\* <ac:task-body>text + one link token per element of ctx</ac:task-body></ac:task>
Task(n, s, text, ctx) == Line("task", n, s, text, ctx)
\* <li id="todo-n"><ac:task><ac:task-status>s</ac:task-status><ac:task-body>...
LiTask(n, s, text, ctx) == Line("li_task", n, s, text, ctx)
\* <li data-inline-task-id="n" data-inline-task-status="unchecked"><span ...>
LiInline(n, text, ctx) == Line("li_inline", n, "unchecked", text, ctx)
\* <ac:structured-macro ac:name="info" ...><ac:parameter ac:name="title">[c]
\* </ac:parameter><ac:rich-text-body><p>text</p></ac:rich-text-body>...
InfoPanel(c, text) == Line("info", 0, "", text, <<c>>)
\* <p style="color: #888; ...">{time}</p>
Timestamp == Line("ts", 0, "", "", <<>>)
\* <ac:structured-macro ac:name="code" data-ref-id="c"><ac:parameter
\* ac:name="title">[c]</ac:parameter>...<![CDATA[text]]>...
RefMacro(c, text) == Line("ref", 0, "", text, <<c>>)
\* a note as addNote writes it: the bare text
RawText(text) == Line("raw", 0, "", text, <<>>)
\* <ul class="inline-task-list"> or <ul>, and </ul>
UlOpen == Line("ul_open", 0, "", "", <<>>)
UlClose == Line("ul_close", 0, "", "", <<>>)

\* line.trim() is truthy
NonBlank(l) == l.k # "blank"
\* line.startsWith('<h3>')
StartsWithH3(l) == l.k = "h3"
\* line.startsWith('<h2>') || line.startsWith('<hr')
EndsRegion(l) == l.k \in {"h2", "hr"}

\* ---------------------------------------------------------- string helpers
\* a + b for a content a that ends with '\n': the empty last element of
\* a.split('\n') is where b starts
AppendStr(a, b) == SubSeq(a, 1, Len(a) - 1) \o b

\* lines.slice(from, to) with 1-based from and exclusive 1-based to
Slice(lines, from, to) == SubSeq(lines, from, to - 1)

\* lines.splice(at, 0, ...ins)
SpliceIn(lines, at, ins) ==
  LET p == IF at > Len(lines) + 1 THEN Len(lines) + 1 ELSE at
  IN  SubSeq(lines, 1, p - 1) \o ins \o SubSeq(lines, p, Len(lines))

\* lines.splice(at, count)
SpliceOut(lines, at, count) ==
  IF at > Len(lines) THEN lines
  ELSE SubSeq(lines, 1, at - 1) \o SubSeq(lines, at + count, Len(lines))

\* a joined slice is a truthy string unless it is '' (no line, or one empty line)
Truthy(seq) == seq # <<>> /\ seq # <<Blank>>

RECURSIVE DropLeadingBlank(_)
DropLeadingBlank(seq) ==
  IF seq = <<>> THEN <<>>
  ELSE IF seq[1] = Blank THEN DropLeadingBlank(Tail(seq)) ELSE seq

RECURSIVE DropTrailingBlank(_)
DropTrailingBlank(seq) ==
  IF seq = <<>> THEN <<>>
  ELSE IF seq[Len(seq)] = Blank THEN DropTrailingBlank(SubSeq(seq, 1, Len(seq) - 1))
       ELSE seq

\* the lines of s.trim(); <<>> stands for the empty string
TrimStr(seq) == DropTrailingBlank(DropLeadingBlank(seq))

\* content.trim() is truthy
TrimTruthy(seq) == TrimStr(seq) # <<>>

\* ------------------------------------------------------------------- clock
\* getCurrentMonthString: the month a day falls in
getCurrentMonthString(d) == IF d <= LastDayOfMonth THEN 1 ELSE 2

\* readNotesFile: a missing file is created empty and read as ''
readNotesFile(fs, d) == fs[getCurrentMonthString(d)]

\* writeNotesFile
writeNotesFile(fs, d, content) == [fs EXCEPT ![getCurrentMonthString(d)] = content]

\* ---------------------------------------------------------- region locator
NoSection == [startIdx |-> 0, endIdx |-> 0, content |-> <<>>]

RECURSIVE TodayScan(_, _, _, _)
TodayScan(lines, d, i, startIdx) ==
  IF i > Len(lines) THEN [startIdx |-> startIdx, endIdx |-> Len(lines) + 1]
  ELSE IF lines[i] = H2(d) THEN TodayScan(lines, d, i + 1, i)
  ELSE IF startIdx # 0 /\ EndsRegion(lines[i])
       THEN [startIdx |-> startIdx, endIdx |-> i]
  ELSE TodayScan(lines, d, i + 1, startIdx)

\* getTodaySection with the heading pattern tried without the multi-line flag:
\* ^ and $ then match the whole content only
getTodaySection_NoMultiline(content, d) ==
  IF content # <<H2(d)>> THEN NoSection
  ELSE [startIdx |-> 1, endIdx |-> 2, content |-> content]

\* getTodaySection: NoSection stands for null; endIdx is exclusive
getTodaySection(content, d) ==
  IF \A i \in 1..Len(content) : content[i] # H2(d) THEN NoSection
  ELSE LET r == TodayScan(content, d, 1, 0)
       IN  [startIdx |-> r.startIdx, endIdx |-> r.endIdx,
            content |-> Slice(content, r.startIdx, r.endIdx)]

\* the skeleton region initializeTodaySection writes (it ends with "\n\n")
NewSection(d) ==
  << H2(d), Blank, H3("Todos"), TaskListOpen, TaskListClose, Blank,
     H3("Context"), Blank, H3("References"), Blank, H3("Notes"), EmptyPara,
     Blank, Blank >>

\* '<hr>\n\n'
HrSeparator == << Hr, Blank, Blank >>

\* initializeTodaySection: the files afterwards and the returned section
initializeTodaySection(fs, d) ==
  LET content == readNotesFile(fs, d)
      todaySection == getTodaySection(content, d)
  IN  IF todaySection = NoSection
      THEN [fs |-> writeNotesFile(fs, d,
                     IF TrimTruthy(content)
                     THEN AppendStr(AppendStr(NewSection(d), HrSeparator), content)
                     ELSE NewSection(d)),
            section |-> NewSection(d)]
      ELSE [fs |-> fs, section |-> todaySection.content]

\* replaceTodaySection
replaceTodaySection_Overwrite(fs, d, newSectionContent) ==
  writeNotesFile(fs, d, newSectionContent)

replaceTodaySection(fs, d, newSectionContent) ==
  LET content == readNotesFile(fs, d)
      todaySection == getTodaySection(content, d)
  IN  IF todaySection = NoSection
      THEN writeNotesFile(fs, d, newSectionContent)
      ELSE LET before == Slice(content, 1, todaySection.startIdx)
               after == Slice(content, todaySection.endIdx, Len(content) + 1)
               newContent == (IF Truthy(before) THEN before ELSE <<>>)
                             \o (IF Truthy(newSectionContent) THEN newSectionContent ELSE <<>>)
                             \o (IF Truthy(after) THEN after ELSE <<>>)
               trimmed == TrimStr(newContent)
           IN  writeNotesFile(fs, d,
                 IF trimmed = <<>> THEN <<Blank, Blank>> ELSE trimmed \o <<Blank>>)

\* --------------------------------------------------------- subsection edit
RECURSIVE SectionScan(_, _, _, _)
SectionScan(lines, name, i, sectionIdx) ==
  IF i > Len(lines) THEN [sectionIdx |-> sectionIdx, nextSectionIdx |-> Len(lines) + 1]
  ELSE IF lines[i] = H3(name) THEN SectionScan(lines, name, i + 1, i)
  ELSE IF sectionIdx # 0 /\ StartsWithH3(lines[i])
       THEN [sectionIdx |-> sectionIdx, nextSectionIdx |-> i]
  ELSE SectionScan(lines, name, i + 1, sectionIdx)

RECURSIVE LastNonEmpty(_, _, _, _)
LastNonEmpty(lines, i, sectionIdx, dflt) ==
  IF i <= sectionIdx THEN dflt
  ELSE IF NonBlank(lines[i]) THEN i + 1
  ELSE LastNonEmpty(lines, i - 1, sectionIdx, dflt)

\* the edit addContentToSection makes to the lines of today's section
InsertContent_AfterHeading(lines, name, content) ==
  LET r == SectionScan(lines, name, 1, 0)
  IN  IF r.sectionIdx = 0
      THEN lines \o <<H3(name), Blank>> \o content \o <<Blank>>
      ELSE SpliceIn(lines, r.sectionIdx + 1, content \o <<Blank>>)

InsertContent(lines, name, content) ==
  LET r == SectionScan(lines, name, 1, 0)
  IN  IF r.sectionIdx = 0
      THEN lines \o <<H3(name), Blank>> \o content \o <<Blank>>
      ELSE LET insertIdx == LastNonEmpty(lines, r.nextSectionIdx - 1,
                                         r.sectionIdx, r.nextSectionIdx)
           IN  IF insertIdx = r.sectionIdx + 1
               THEN SpliceIn(lines, insertIdx, content \o <<Blank>>)
               ELSE SpliceIn(lines, insertIdx, <<Blank>> \o content)

\* addContentToSection
addContentToSection(fs, d, name, content) ==
  LET r == initializeTodaySection(fs, d)
  IN  replaceTodaySection(r.fs, d, InsertContent(r.section, name, content))

\* addContext
addContext(fs, d, contextId, contextText) ==
  addContentToSection(fs, d, "Context", <<InfoPanel(contextId, contextText)>>)

\* --------------------------------------------------------------- item index
\* the todo wrapper regular expression of extractTodos / updateTodoInSection:
\* <ac:task><ac:task-id>(\d+)</ac:task-id><ac:task-status>(complete|incomplete)...
TodoMatch(l) == l.k = "task" /\ l.s \in {"complete", "incomplete"}

\* the todo record extractTodos pushes for line i
TodoItem(l, i) ==
  [checked |-> l.s = "complete", text |-> l.text, lineNumber |-> i,
   contextIds |-> l.ctx, todoId |-> l.n]

RECURSIVE ExtractScan(_, _, _, _)
ExtractScan(lines, i, inTodoSection, todos) ==
  IF i > Len(lines) THEN todos
  ELSE IF lines[i] = H3("Todos") THEN ExtractScan(lines, i + 1, TRUE, todos)
  ELSE LET in == IF StartsWithH3(lines[i]) THEN FALSE ELSE inTodoSection
       IN  IF in /\ NonBlank(lines[i]) /\ TodoMatch(lines[i])
           THEN ExtractScan(lines, i + 1, in, Append(todos, TodoItem(lines[i], i)))
           ELSE ExtractScan(lines, i + 1, in, todos)

\* extractTodos
extractTodos(sectionContent) == ExtractScan(sectionContent, 1, FALSE, <<>>)

RECURSIVE NextIdScan(_, _, _, _)
NextIdScan(lines, i, inTodoSection, maxId) ==
  IF i > Len(lines) THEN maxId + 1
  ELSE IF lines[i] = H3("Todos") THEN NextIdScan(lines, i + 1, TRUE, maxId)
  ELSE LET in == IF StartsWithH3(lines[i]) THEN FALSE ELSE inTodoSection
       IN  \* only the <ac:task-id> dialect carries the id this scan reads
           IF in /\ NonBlank(lines[i]) /\ lines[i].k = "task" /\ lines[i].n > maxId
           THEN NextIdScan(lines, i + 1, in, lines[i].n)
           ELSE NextIdScan(lines, i + 1, in, maxId)

\* getNextTodoId
getNextTodoId(sectionContent) == NextIdScan(sectionContent, 1, FALSE, 0)

\* contextIds.includes(contextId)
Includes(seq, x) == \E j \in 1..Len(seq) : seq[j] = x

\* a variant that stops at the first todo that links to the context
getTodosReferencingContext_FirstOnly(sectionContent, contextId) ==
  LET todos == extractTodos(sectionContent)
      Keep(todo) == Includes(todo.contextIds, contextId) /\ todo.todoId # 0
      kept == SelectSeq(todos, Keep)
  IN  IF Len(kept) = 0 THEN <<>>
      ELSE << [todoId |-> kept[1].todoId, text |-> kept[1].text] >>

\* getTodosReferencingContext
getTodosReferencingContext(sectionContent, contextId) ==
  LET todos == extractTodos(sectionContent)
      Keep(todo) == Includes(todo.contextIds, contextId) /\ todo.todoId # 0
      kept == SelectSeq(todos, Keep)
  IN  [j \in 1..Len(kept) |-> [todoId |-> kept[j].todoId, text |-> kept[j].text]]

\* a variant that rebuilds the line from the todo's plain text, without
\* the context links of its body
updateTodoInSection_PlainBody(sectionContent, lineNumber, checked) ==
  IF lineNumber \in 1..Len(sectionContent)
     /\ NonBlank(sectionContent[lineNumber]) /\ TodoMatch(sectionContent[lineNumber])
  THEN [sectionContent EXCEPT ![lineNumber] =
          Task(@.n, IF checked THEN "complete" ELSE "incomplete", @.text, <<>>)]
  ELSE sectionContent

\* updateTodoInSection
updateTodoInSection(sectionContent, lineNumber, checked) ==
  IF lineNumber \in 1..Len(sectionContent)
     /\ NonBlank(sectionContent[lineNumber]) /\ TodoMatch(sectionContent[lineNumber])
  THEN [sectionContent EXCEPT ![lineNumber] =
          Task(@.n, IF checked THEN "complete" ELSE "incomplete", @.text, @.ctx)]
  ELSE sectionContent

\* ------------------------------------------------------------- previous day
\* the first index >= i whose line is of one of the kinds, 0 when there is none
FirstIdx(lines, i, kinds) ==
  LET S == {j \in i..Len(lines) : lines[j].k \in kinds}
  IN  IF S = {} THEN 0 ELSE CHOOSE j \in S : \A k \in S : j <= k

\* the first index of a line equal to l, 0 when there is none
IndexOf(lines, l) ==
  LET S == {j \in 1..Len(lines) : lines[j] = l}
  IN  IF S = {} THEN 0 ELSE CHOOSE j \in S : \A k \in S : j <= k

IsH2(l) == l.k = "h2"

\* getPreviousDaySection
getPreviousDaySection(content, d) ==
  LET todayIdx == IndexOf(content, H2(d))
      previousDayStartIdx ==
        IF todayIdx = 0 THEN FirstIdx(content, 1, {"h2"})
        ELSE FirstIdx(content, todayIdx + 1, {"h2"})
      e == FirstIdx(content, previousDayStartIdx + 1, {"h2", "hr"})
      previousDayEndIdx == IF e = 0 THEN Len(content) + 1 ELSE e
  IN  IF previousDayStartIdx = 0 THEN NoSection
      ELSE [startIdx |-> previousDayStartIdx, endIdx |-> previousDayEndIdx,
            content |-> Slice(content, previousDayStartIdx, previousDayEndIdx)]

\* ----------------------------------------------------------------- commands
\* the loop of addTodo and carryoverTodos that looks for the Todos heading,
\* the list-start line and the list-end line; 0 stands for -1
RECURSIVE ListScan(_, _, _, _, _)
ListScan(lines, i, open, close, st) ==
  IF i > Len(lines) THEN st
  ELSE IF lines[i] = H3("Todos")
       THEN ListScan(lines, i + 1, open, close, [st EXCEPT !.todoSectionIdx = i])
  ELSE IF st.todoSectionIdx # 0 /\ st.listIdx = 0 /\ lines[i] = open
       THEN ListScan(lines, i + 1, open, close, [st EXCEPT !.listIdx = i])
  ELSE IF st.todoSectionIdx # 0 /\ lines[i] = close
       THEN [st EXCEPT !.insertIdx = i]
  ELSE IF st.todoSectionIdx # 0 /\ StartsWithH3(lines[i]) THEN st
  ELSE ListScan(lines, i + 1, open, close, st)

\* where the new todo lines go: before the list-end line, else two lines
\* below the Todos heading
TodoInsertIdx(lines, open, close) ==
  LET st == ListScan(lines, 1, open, close,
                     [todoSectionIdx |-> 0, listIdx |-> 0, insertIdx |-> 0])
  IN  IF st.insertIdx = 0 \/ st.listIdx = 0 THEN st.todoSectionIdx + 2
      ELSE st.insertIdx

\* addTodo (commands/addTodo.js); contextId = "" when no context is given
addTodo(fs, d, todoText, contextId, contextText) ==
  LET fs1 == IF contextId # "" THEN addContext(fs, d, contextId, contextText) ELSE fs
      r == initializeTodaySection(fs1, d)
      lines == r.section
      insertIdx == TodoInsertIdx(lines, UlOpen, UlClose)
      todoId == getNextTodoId(r.section)
      todoLine == LiInline(todoId, todoText,
                           IF contextId # "" THEN <<contextId>> ELSE <<>>)
  IN  [fs |-> replaceTodaySection(r.fs, d, SpliceIn(lines, insertIdx, <<todoLine>>)),
       todoId |-> todoId]

\* the todo lines carryoverTodos builds, numbered from nextTodoId
CarriedLines(todos, nextTodoId) ==
  [j \in 1..Len(todos) |->
     Task(nextTodoId + j - 1, "incomplete", todos[j].text, todos[j].contextIds)]

NotChecked(todo) == ~todo.checked

\* carryoverTodos: the files afterwards and the ids it numbered the copies with
carryoverTodos(fs, d) ==
  LET r == initializeTodaySection(fs, d)
      content == readNotesFile(r.fs, d)
      previousDaySection == getPreviousDaySection(content, d)
      incompleteTodos == SelectSeq(extractTodos(previousDaySection.content), NotChecked)
      lines == r.section
      insertIdx == TodoInsertIdx(lines, TaskListOpen, TaskListClose)
      nextTodoId == getNextTodoId(r.section)
      newTodoLines == CarriedLines(incompleteTodos, nextTodoId)
  IN  IF previousDaySection = NoSection \/ Len(incompleteTodos) = 0
      THEN [fs |-> r.fs, ids |-> {}]
      ELSE [fs |-> replaceTodaySection(r.fs, d, SpliceIn(lines, insertIdx, newTodoLines)),
            ids |-> {nextTodoId + j - 1 : j \in 1..Len(incompleteTodos)}]

\* idExistsInAnyFile: of the three patterns it tries, <p><strong>[id]</strong></p>
\* and [context: id] match no line of this vocabulary; data-ref-id="id" matches
\* the reference macro
idExistsInAnyFile(fs, id) ==
  \E m \in Months : \E i \in 1..Len(fs[m]) :
     fs[m][i].k = "ref" /\ Includes(fs[m][i].ctx, id)

\* addRef (commands/addRef.js)
addRef(fs, d, refId, content) ==
  addContentToSection(fs, d, "References", <<Timestamp, RefMacro(refId, content)>>)

\* addNote (commands/addNote.js)
addNote(fs, d, content) == addContentToSection(fs, d, "Notes", <<RawText(content)>>)

\* ------------------------------------------------- interactive todo manager
\* the wrapper regular expression of the interactive handlers:
\* <li(?:\s+id="(todo-\d+)")?><ac:task><ac:task-status>(complete|incomplete)...
LiMatch(l) == l.k = "li_task" /\ l.s \in {"complete", "incomplete"}

\* lines[todo.lineNumber] is a non-empty string
LineAt(lines, lineNumber) ==
  lineNumber \in 1..Len(lines) /\ NonBlank(lines[lineNumber])

\* addTodoInteractive; contextId = "" when no context is entered
addTodoInteractive(fs, d, todoText, contextId, contextText) ==
  LET r == initializeTodaySection(fs, d)
      todoId == getNextTodoId(r.section)
      fs1 == IF contextId # "" THEN addContext(r.fs, d, contextId, contextText) ELSE r.fs
      lines == r.section
      insertIdx == IndexOf(lines, UlClose)
      todoLine == LiTask(todoId, "incomplete", todoText,
                         IF contextId # "" THEN <<contextId>> ELSE <<>>)
  IN  IF insertIdx # 0
      THEN [fs |-> replaceTodaySection(fs1, d, SpliceIn(lines, insertIdx, <<todoLine>>)),
            ids |-> {todoId}]
      ELSE [fs |-> fs1, ids |-> {}]

\* editTodoInteractive
editTodoInteractive(fs, d, todo, todaySection, newText) ==
  LET lines == todaySection
      n == todo.lineNumber
      edited == IF LineAt(lines, n) /\ LiMatch(lines[n])
                THEN [lines EXCEPT ![n] = LiTask(@.n, @.s, newText, @.ctx)]
                ELSE lines
  IN  replaceTodaySection(fs, d, edited)

\* deleteTodoInteractive
deleteTodoInteractive(fs, d, todo, todaySection, confirm) ==
  IF confirm
  THEN replaceTodaySection(fs, d, SpliceOut(todaySection, todo.lineNumber, 1))
  ELSE fs

\* addContextToTodoInteractive
addContextToTodoInteractive(fs, d, todo, todaySection, contextId, contextText) ==
  LET fs1 == addContext(fs, d, contextId, contextText)
      lines == todaySection
      n == todo.lineNumber
      linked == IF LineAt(lines, n) /\ LiMatch(lines[n])
                THEN [lines EXCEPT ![n] = LiTask(@.n, @.s, @.text, Append(@.ctx, contextId))]
                ELSE lines
  IN  replaceTodaySection(fs1, d, linked)

\* deleteContextFromTodoInteractive
deleteContextFromTodoInteractive(fs, d, todo, todaySection, contextId, confirm) ==
  LET lines == todaySection
      n == todo.lineNumber
      Other(c) == c # contextId
      unlinked == IF LineAt(lines, n) /\ LiMatch(lines[n])
                  THEN [lines EXCEPT ![n] = LiTask(@.n, @.s, @.text, SelectSeq(@.ctx, Other))]
                  ELSE lines
  IN  IF confirm THEN replaceTodaySection(fs, d, unlinked) ELSE fs

\* the top of the loop of showTodoList: read today's section, parse it and
\* bring selectedIndex (0-based, as in the code) back into the list
ClampIndex(idx, len) ==
  IF len = 0 THEN idx
  ELSE LET a == IF idx >= len THEN len - 1 ELSE idx
       IN  IF a < 0 THEN 0 ELSE a

showTodoListTop(fs, d, selectedIndex) ==
  LET r == initializeTodaySection(fs, d)
  IN  [fs |-> r.fs, section |-> r.section,
       selectedIndex |-> ClampIndex(selectedIndex, Len(extractTodos(r.section)))]

\* currentTodo of showContextViewForTodo: the parsed todo with the id of the
\* todo the view was opened for, else that todo as it was
CurrentTodo(todaySection, t) ==
  LET currentTodos == extractTodos(todaySection)
      Same(x) == x.todoId = t.todoId
      found == SelectSeq(currentTodos, Same)
  IN  IF t.todoId # 0 /\ Len(found) > 0 THEN found[1] ELSE t

showContextViewTop(fs, d, t, selectedContextIndex) ==
  LET r == initializeTodaySection(fs, d)
  IN  [fs |-> r.fs, section |-> r.section,
       selectedContextIndex |->
         ClampIndex(selectedContextIndex, Len(CurrentTodo(r.section, t).contextIds))]

\* ------------------------------------------------------------------- state
VARIABLES
  files,      \* month -> content of the monthly notes file
  day,        \* the calendar day the clock shows
  ui,         \* "cli", or the interactive loop waiting for a key: "list", "context"
  held,       \* todaySection as the waiting loop read it at its top
  sel,        \* selectedIndex of showTodoList
  todo,       \* the todo showContextViewForTodo was opened for
  selCtx,     \* selectedContextIndex of showContextViewForTodo
  issued,     \* <<month, id>> for every todo id an operation numbered a todo with
  steps,      \* the number of operations run so far
  lastOp      \* the operation that ran last and its inputs

vars == <<files, day, ui, held, sel, todo, selCtx, issued, steps, lastOp>>

NoTodo == [checked |-> FALSE, text |-> "", lineNumber |-> 0, contextIds |-> <<>>, todoId |-> 0]

Op(name, text, cid, ids, confirm) ==
  [op |-> name, text |-> text, cid |-> cid, ids |-> ids, confirm |-> confirm]

\* a day region as the operations leave it: README.md "Notes Format"
Region(d, todos, contexts) ==
  << H2(d), Blank, H3("Todos"), TaskListOpen >> \o todos
  \o << TaskListClose, Blank, H3("Context"), Blank, Blank >> \o contexts
  \o << H3("References"), Blank, H3("Notes"), EmptyPara, Blank >>

YesterdayRegion ==
  Region(0, << Task(1, "incomplete", "a", <<"c1">>), Task(2, "complete", "b", <<>>) >>,
         << InfoPanel("c1", "a") >>)

TodayRegion ==
  Region(1, << Task(3, "incomplete", "b", <<"c1", "c2">>), Task(4, "complete", "a", <<"c2">>) >>,
         << InfoPanel("c2", "b") >>)

\* the monthly file at the start: new, or holding the regions of earlier use
InitialContents ==
  { <<Blank>>,
    YesterdayRegion,
    TodayRegion \o <<Hr, Blank>> \o YesterdayRegion }

Init ==
  /\ files \in {[m \in Months |-> IF m = 1 THEN c ELSE <<Blank>>] : c \in InitialContents}
  /\ day = 1
  /\ ui = "cli"
  /\ held = <<>>
  /\ sel = 0
  /\ todo = NoTodo
  /\ selCtx = 0
  /\ issued = {}
  /\ steps = 0
  /\ lastOp = Op("init", "", "", {}, FALSE)

\* every operation counts as one step of the bounded run
Step == steps < MaxSteps /\ steps' = steps + 1

Issue(ids) == issued \cup {<<getCurrentMonthString(day), i>> : i \in ids}

\* generateUniqueThreeWordId(idExistsInAnyFile) can throw: every draw can be
\* an identifier that exists, as soon as one exists
Exhaustible(fs) == \E id \in Candidates : idExistsInAnyFile(fs, id)

\* the calendar day advances while the program waits or is not running
Tick ==
  /\ Step
  /\ day < MaxDay
  /\ day' = day + 1
  /\ lastOp' = Op("tick", "", "", {}, FALSE)
  /\ UNCHANGED <<files, ui, held, sel, todo, selCtx, issued>>

\* wdidt todo "text" ["context"]
AddTodo ==
  /\ Step
  /\ ui = "cli"
  /\ \/ \E text \in AddedTexts, cid \in Candidates \cup {""} :
          /\ cid # "" => ~idExistsInAnyFile(files, cid)
          /\ LET r == addTodo(files, day, text, cid, text)
             IN  /\ files' = r.fs
                 /\ issued' = Issue({r.todoId})
                 /\ lastOp' = Op("addTodo", text, cid, {r.todoId}, FALSE)
     \/ \E text \in AddedTexts :
          \* the generation at lines 65-69 throws, before line 71
          /\ Exhaustible(files)
          /\ lastOp' = Op("addTodoFailed", text, "", {}, FALSE)
          /\ UNCHANGED <<files, issued>>
  /\ UNCHANGED <<day, ui, held, sel, todo, selCtx>>

\* wdidt note "text"
AddNote ==
  /\ Step
  /\ ui = "cli"
  /\ \E text \in AddedTexts :
       /\ files' = addNote(files, day, text)
       /\ lastOp' = Op("addNote", text, "", {}, FALSE)
  /\ UNCHANGED <<day, ui, held, sel, todo, selCtx, issued>>

\* wdidt ref "text"
AddRef ==
  /\ Step
  /\ ui = "cli"
  /\ \/ \E text \in AddedTexts, id \in Candidates :
          /\ ~idExistsInAnyFile(files, id)
          /\ files' = addRef(files, day, id, text)
          /\ lastOp' = Op("addRef", text, id, {}, FALSE)
     \/ \E text \in AddedTexts :
          \* the generation at line 69 throws
          /\ Exhaustible(files)
          /\ lastOp' = Op("addRefFailed", text, "", {}, FALSE)
          /\ UNCHANGED files
  /\ UNCHANGED <<day, ui, held, sel, todo, selCtx, issued>>

\* wdidt carryover
Carryover ==
  /\ Step
  /\ ui = "cli"
  /\ LET r == carryoverTodos(files, day)
     IN  /\ files' = r.fs
         /\ issued' = Issue(r.ids)
         /\ lastOp' = Op("carryover", "", "", r.ids, FALSE)
  /\ UNCHANGED <<day, ui, held, sel, todo, selCtx>>

\* the todos the waiting loop shows, parsed from the section it read
Todos == extractTodos(held)

\* the list loop resumes: its top runs on the files a handler left
ResumeList(fs, idx) ==
  LET top == showTodoListTop(fs, day, idx)
  IN  /\ files' = top.fs
      /\ held' = top.section
      /\ sel' = top.selectedIndex
      /\ ui' = "list"

\* wdidt todo (no text): listTodos enters showTodoList
OpenList ==
  /\ Step
  /\ ui = "cli"
  /\ ResumeList(files, 0)
  /\ lastOp' = Op("listTodos", "", "", {}, FALSE)
  /\ UNCHANGED <<day, todo, selCtx, issued>>

\* UP / k
KeyUp ==
  /\ Step
  /\ ui = "list"
  /\ ResumeList(files, IF Len(Todos) > 0 THEN (IF sel - 1 < 0 THEN 0 ELSE sel - 1) ELSE sel)
  /\ lastOp' = Op("up", "", "", {}, FALSE)
  /\ UNCHANGED <<day, todo, selCtx, issued>>

\* DOWN / j
KeyDown ==
  /\ Step
  /\ ui = "list"
  /\ ResumeList(files, IF Len(Todos) > 0
                       THEN (IF sel + 1 > Len(Todos) - 1 THEN Len(Todos) - 1 ELSE sel + 1)
                       ELSE sel)
  /\ lastOp' = Op("down", "", "", {}, FALSE)
  /\ UNCHANGED <<day, todo, selCtx, issued>>

\* the handlers run only on a selected todo
Selected == Len(Todos) > 0 /\ sel < Len(Todos)

\* SPACE: toggle completion
Toggle ==
  /\ Step
  /\ ui = "list" /\ Selected
  /\ LET t == Todos[sel + 1]
         updatedSection == updateTodoInSection(held, t.lineNumber, ~t.checked)
     IN  ResumeList(replaceTodaySection(files, day, updatedSection), sel)
  /\ lastOp' = Op("toggle", "", "", {}, FALSE)
  /\ UNCHANGED <<day, todo, selCtx, issued>>

\* e: edit the text of the selected todo
Edit ==
  /\ Step
  /\ ui = "list" /\ Selected
  /\ \E newText \in Texts :
       /\ ResumeList(editTodoInteractive(files, day, Todos[sel + 1], held, newText), sel)
       /\ lastOp' = Op("edit", newText, "", {}, FALSE)
  /\ UNCHANGED <<day, todo, selCtx, issued>>

\* d: delete the selected todo, after a confirmation
Delete ==
  /\ Step
  /\ ui = "list" /\ Selected
  /\ \E confirm \in BOOLEAN :
       /\ ResumeList(deleteTodoInteractive(files, day, Todos[sel + 1], held, confirm),
                     IF sel >= Len(Todos) - 1 /\ sel > 0 THEN sel - 1 ELSE sel)
       /\ lastOp' = Op("delete", "", "", {}, confirm)
  /\ UNCHANGED <<day, todo, selCtx, issued>>

\* a: add a todo, with a context or without
AddInteractive ==
  /\ Step
  /\ ui = "list"
  /\ \/ \E text \in AddedTexts, cid \in Candidates \cup {""} :
          /\ cid # "" => ~idExistsInAnyFile(files, cid)
          /\ LET r == addTodoInteractive(files, day, text, cid, text)
             IN  /\ ResumeList(r.fs, sel)
                 /\ issued' = Issue(r.ids)
                 /\ lastOp' = Op("addTodoInteractive", text, cid, r.ids, FALSE)
     \/ \E text \in AddedTexts :
          \* initializeTodaySection (line 1815) has run when the generation
          \* (line 1820) throws; nothing catches the error and the command ends
          /\ Exhaustible(initializeTodaySection(files, day).fs)
          /\ files' = initializeTodaySection(files, day).fs
          /\ ui' = "cli" /\ held' = <<>> /\ sel' = 0
          /\ lastOp' = Op("addTodoInteractiveFailed", text, "", {}, FALSE)
          /\ UNCHANGED issued
  /\ UNCHANGED <<day, todo, selCtx>>

\* ESC in the list: the command ends
Escape ==
  /\ Step
  /\ ui = "list"
  /\ ui' = "cli" /\ held' = <<>> /\ sel' = 0
  /\ lastOp' = Op("escape", "", "", {}, FALSE)
  /\ UNCHANGED <<files, day, todo, selCtx, issued>>

\* the context view resumes: its top runs on the files a handler left
ResumeContext(fs, t, idx) ==
  LET top == showContextViewTop(fs, day, t, idx)
  IN  /\ files' = top.fs
      /\ held' = top.section
      /\ selCtx' = top.selectedContextIndex
      /\ todo' = t
      /\ ui' = "context"

\* currentTodo of the waiting context view
Current == CurrentTodo(held, todo)

\* c: showContextViewForTodo for the selected todo
OpenContext ==
  /\ Step
  /\ ui = "list" /\ Selected
  /\ ResumeContext(files, Todos[sel + 1], 0)
  /\ lastOp' = Op("contextView", "", "", {}, FALSE)
  /\ UNCHANGED <<day, sel, issued>>

\* UP / k in the context view
ContextUp ==
  /\ Step
  /\ ui = "context"
  /\ ResumeContext(files, todo,
                   IF Len(Current.contextIds) > 0
                   THEN (IF selCtx - 1 < 0 THEN 0 ELSE selCtx - 1) ELSE selCtx)
  /\ lastOp' = Op("contextUp", "", "", {}, FALSE)
  /\ UNCHANGED <<day, sel, issued>>

\* DOWN / j in the context view
ContextDown ==
  /\ Step
  /\ ui = "context"
  /\ ResumeContext(files, todo,
                   IF Len(Current.contextIds) > 0
                   THEN (IF selCtx + 1 > Len(Current.contextIds) - 1
                         THEN Len(Current.contextIds) - 1 ELSE selCtx + 1)
                   ELSE selCtx)
  /\ lastOp' = Op("contextDown", "", "", {}, FALSE)
  /\ UNCHANGED <<day, sel, issued>>

\* a in the context view: add a context to the todo
AddContextToTodo ==
  /\ Step
  /\ ui = "context"
  /\ \/ \E text \in AddedTexts, cid \in Candidates :
          /\ ~idExistsInAnyFile(files, cid)
          /\ ResumeContext(addContextToTodoInteractive(files, day, Current, held, cid, text),
                           todo, Len(Current.contextIds))
          /\ lastOp' = Op("addContextToTodo", text, cid, {}, FALSE)
          /\ UNCHANGED sel
     \/ \E text \in AddedTexts :
          \* the generation at line 1970 throws; the command ends
          /\ Exhaustible(files)
          /\ ui' = "cli" /\ held' = <<>> /\ sel' = 0
          /\ todo' = NoTodo /\ selCtx' = 0
          /\ lastOp' = Op("addContextToTodoFailed", text, "", {}, FALSE)
          /\ UNCHANGED files
  /\ UNCHANGED <<day, issued>>

\* d in the context view: remove the selected context link, after a confirmation
DeleteContextFromTodo ==
  /\ Step
  /\ ui = "context"
  /\ Len(Current.contextIds) > 0 /\ selCtx < Len(Current.contextIds)
  /\ \E confirm \in BOOLEAN :
       LET selectedContextId == Current.contextIds[selCtx + 1]
           n == Len(Current.contextIds)
       IN  /\ ResumeContext(deleteContextFromTodoInteractive(files, day, Current, held,
                                                             selectedContextId, confirm),
                            todo,
                            IF selCtx >= n - 1
                            THEN (IF n - 2 < 0 THEN 0 ELSE n - 2) ELSE selCtx)
           /\ lastOp' = Op("deleteContextFromTodo", "", selectedContextId, {}, confirm)
  /\ UNCHANGED <<day, sel, issued>>

\* ESC in the context view: back to the list
ContextEscape ==
  /\ Step
  /\ ui = "context"
  /\ ResumeList(files, sel)
  /\ todo' = NoTodo /\ selCtx' = 0
  /\ lastOp' = Op("contextEscape", "", "", {}, FALSE)
  /\ UNCHANGED <<day, issued>>

Next ==
  \/ Tick
  \/ AddTodo \/ AddNote \/ AddRef \/ Carryover
  \/ OpenList \/ KeyUp \/ KeyDown \/ Toggle \/ Edit \/ Delete \/ AddInteractive
  \/ Escape
  \/ OpenContext \/ ContextUp \/ ContextDown \/ AddContextToTodo
  \/ DeleteContextFromTodo \/ ContextEscape

Spec == Init /\ [][Next]_vars

\* ------------------------------------------- the todo functions on sections
\* extractTodos, updateTodoInSection and getTodosReferencingContext take any
\* section text: the lines a section is made of here are the subsection
\* headings, the empty line and todo lines of both wrappers
SectionLines ==
  { H3("Todos"), H3("Notes"), Blank,
    Task(1, "incomplete", "a", <<"c1">>),
    Task(2, "complete", "b", <<"c1", "c2">>),
    LiTask(3, "incomplete", "a", <<"c1">>) }

SectionInputs == UNION {[1..n -> SectionLines] : n \in 1..MaxLen}

InitSections ==
  /\ files = [m \in Months |-> <<Blank>>]
  /\ day = 1
  /\ ui = "list"
  /\ held \in SectionInputs
  /\ sel = 0
  /\ todo = NoTodo
  /\ selCtx = 0
  /\ issued = {}
  /\ steps = 0
  /\ lastOp = Op("init", "", "", {}, FALSE)

\* todaySection = updateTodoInSection(todaySection, lineNumber, checked)
SetChecked ==
  /\ \E lineNumber \in 0..(Len(held) + 1), checked \in BOOLEAN :
       /\ held' = updateTodoInSection(held, lineNumber, checked)
       /\ lastOp' = Op("updateTodoInSection", "", "", {lineNumber}, checked)
  /\ UNCHANGED <<files, day, ui, sel, todo, selCtx, issued, steps>>

\* getTodosReferencingContext(todaySection, contextId); the ids of the todos
\* it returned are kept in lastOp
FindReferencing ==
  /\ \E contextId \in CtxIds :
       LET found == getTodosReferencingContext(held, contextId)
       IN  lastOp' = Op("getTodosReferencingContext", "", contextId,
                        {found[j].todoId : j \in 1..Len(found)}, FALSE)
  /\ UNCHANGED <<files, day, ui, held, sel, todo, selCtx, issued, steps>>

\* the edit addTodo (list markers <ul>, </ul>) and carryoverTodos (list
\* markers <ac:task-list>, </ac:task-list>) make to the lines of the section
InsertTodo ==
  /\ Len(held) <= MaxLen
  /\ \E op \in {"addTodo", "carryoverTodos"} :
       LET nextTodoId == getNextTodoId(held)
           insertIdx == IF op = "addTodo" THEN TodoInsertIdx(held, UlOpen, UlClose)
                        ELSE TodoInsertIdx(held, TaskListOpen, TaskListClose)
           new == IF op = "addTodo" THEN <<LiInline(nextTodoId, "b", <<>>)>>
                  ELSE CarriedLines(<<[text |-> "b", contextIds |-> <<>>]>>, nextTodoId)
       IN  /\ held' = SpliceIn(held, insertIdx, new)
           /\ lastOp' = Op(op, "b", "", {nextTodoId}, FALSE)
  /\ UNCHANGED <<files, day, ui, sel, todo, selCtx, issued, steps>>

NextSections == SetChecked \/ FindReferencing \/ InsertTodo

SpecSections == InitSections /\ [][NextSections]_vars

\* ------------------------------------------------------- context operations
\* line.includes('<ac:parameter ac:name="title">[contextId]</ac:parameter>'):
\* the info panel and the code macro both carry such a title
TitleMatch(l, contextId) == l.k \in {"info", "ref"} /\ l.ctx = <<contextId>>

\* line.includes('</ac:structured-macro>')
HasMacroEnd(l) == l.k \in {"info", "ref"}

\* the nearest line at or above i that includes '<ac:structured-macro
\* ac:name="info"', 0 when there is none
MacroStart(lines, i) ==
  LET S == {j \in 1..i : lines[j].k = "info"}
  IN  IF S = {} THEN 0 ELSE CHOOSE j \in S : \A k \in S : k <= j

\* the loop of deleteContext; 0 stands for -1
RECURSIVE DeleteScan(_, _, _, _, _)
DeleteScan(lines, contextId, i, inContextSection, contextStartIdx) ==
  IF i > Len(lines) THEN [contextStartIdx |-> contextStartIdx, contextEndIdx |-> 0]
  ELSE IF lines[i] = H3("Context")
       THEN DeleteScan(lines, contextId, i + 1, TRUE, contextStartIdx)
  ELSE IF StartsWithH3(lines[i]) /\ contextStartIdx # 0
       THEN [contextStartIdx |-> contextStartIdx, contextEndIdx |-> i]
  ELSE LET in == IF StartsWithH3(lines[i]) THEN FALSE ELSE inContextSection
       IN  IF in /\ TitleMatch(lines[i], contextId)
           THEN DeleteScan(lines, contextId, i + 1, in,
                           IF MacroStart(lines, i) # 0 THEN MacroStart(lines, i)
                           ELSE contextStartIdx)
           ELSE IF in /\ contextStartIdx # 0 /\ HasMacroEnd(lines[i])
           THEN [contextStartIdx |-> contextStartIdx, contextEndIdx |-> i + 1]
           ELSE DeleteScan(lines, contextId, i + 1, in, contextStartIdx)

\* deleteContext
deleteContext(fs, d, contextId) ==
  LET r == initializeTodaySection(fs, d)
      lines == r.section
      sc == DeleteScan(lines, contextId, 1, FALSE, 0)
      contextEndIdx == IF sc.contextEndIdx = 0 THEN Len(lines) + 1 ELSE sc.contextEndIdx
  IN  IF sc.contextStartIdx = 0 THEN r.fs
      ELSE replaceTodaySection(r.fs, d,
             SpliceOut(lines, sc.contextStartIdx, contextEndIdx - sc.contextStartIdx))

\* a line collected as context text: line.trim() && !includes('ac:parameter')
\* && !includes('ac:rich-text-body') (the macro lines include both)
IsContextText(l) == NonBlank(l) /\ l.k \notin {"info", "ref"}

\* getContextById: the texts of the lines collected, <<>> for null
getContextById(sectionContent, contextId) ==
  LET lines == sectionContent
      RECURSIVE Scan(_, _, _, _)
      Scan(i, inContextSection, inInfoPanel, contextLines) ==
        IF i > Len(lines) THEN contextLines
        ELSE IF lines[i] = H3("Context") THEN Scan(i + 1, TRUE, inInfoPanel, contextLines)
        ELSE IF inContextSection /\ StartsWithH3(lines[i]) THEN contextLines
        ELSE IF ~inContextSection THEN Scan(i + 1, FALSE, inInfoPanel, contextLines)
        ELSE IF TitleMatch(lines[i], contextId) THEN Scan(i + 1, TRUE, TRUE, contextLines)
        ELSE IF ~inInfoPanel THEN Scan(i + 1, TRUE, FALSE, contextLines)
        ELSE IF HasMacroEnd(lines[i]) THEN contextLines
        ELSE IF IsContextText(lines[i])
             THEN Scan(i + 1, TRUE, TRUE, Append(contextLines, lines[i].text))
             ELSE Scan(i + 1, TRUE, TRUE, contextLines)
  IN  Scan(1, FALSE, FALSE, <<>>)

\* getAllContexts: id "" stands for currentContextId = null
getAllContexts(sectionContent) ==
  LET lines == sectionContent
      Save(contexts, id, text) ==
        IF id # "" /\ text # <<>> THEN Append(contexts, [id |-> id, text |-> text])
        ELSE contexts
      RECURSIVE Scan(_, _, _, _, _, _)
      Scan(i, inContextSection, inInfoPanel, id, text, contexts) ==
        IF i > Len(lines) THEN Save(contexts, id, text)
        ELSE IF lines[i] = H3("Context")
             THEN Scan(i + 1, TRUE, inInfoPanel, id, text, contexts)
        \* the pending context is pushed at the break and again after the loop
        ELSE IF StartsWithH3(lines[i]) THEN Save(Save(contexts, id, text), id, text)
        ELSE IF ~inContextSection THEN Scan(i + 1, FALSE, inInfoPanel, id, text, contexts)
        ELSE IF lines[i].k \in {"info", "ref"}
             THEN Scan(i + 1, TRUE, TRUE, lines[i].ctx[1], <<>>, Save(contexts, id, text))
        ELSE IF ~inInfoPanel THEN Scan(i + 1, TRUE, FALSE, id, text, contexts)
        ELSE IF IsContextText(lines[i])
             THEN Scan(i + 1, TRUE, TRUE, id, Append(text, lines[i].text), contexts)
             ELSE Scan(i + 1, TRUE, TRUE, id, text, contexts)
  IN  Scan(1, FALSE, FALSE, "", <<>>, <<>>)

\* updateContext: the same loop as deleteContext, then the lines found are
\* replaced by one new block
updateContext(fs, d, contextId, newContextText) ==
  LET r == initializeTodaySection(fs, d)
      lines == r.section
      sc == DeleteScan(lines, contextId, 1, FALSE, 0)
      contextEndIdx == IF sc.contextEndIdx = 0 THEN Len(lines) + 1 ELSE sc.contextEndIdx
  IN  IF sc.contextStartIdx = 0 THEN r.fs
      ELSE replaceTodaySection(r.fs, d,
             SpliceIn(SpliceOut(lines, sc.contextStartIdx, contextEndIdx - sc.contextStartIdx),
                      sc.contextStartIdx, <<InfoPanel(contextId, newContextText)>>))

\* the context functions called one after another on the monthly file
CtxAdd ==
  /\ Step
  /\ \E text \in Texts, contextId \in CtxIds :
       /\ files' = addContext(files, day, contextId, text)
       /\ lastOp' = Op("addContext", text, contextId, {}, FALSE)
  /\ UNCHANGED <<day, ui, held, sel, todo, selCtx, issued>>

CtxDelete ==
  /\ Step
  /\ \E contextId \in CtxIds :
       /\ files' = deleteContext(files, day, contextId)
       /\ lastOp' = Op("deleteContext", "", contextId, {}, FALSE)
  /\ UNCHANGED <<day, ui, held, sel, todo, selCtx, issued>>

CtxUpdate ==
  /\ Step
  /\ \E text \in Texts, contextId \in CtxIds :
       /\ files' = updateContext(files, day, contextId, text)
       /\ lastOp' = Op("updateContext", text, contextId, {}, FALSE)
  /\ UNCHANGED <<day, ui, held, sel, todo, selCtx, issued>>

NextContext == CtxAdd \/ CtxDelete \/ CtxUpdate

SpecContext == Init /\ [][NextContext]_vars

\* ------------------------------------------------- notes and references index
\* <p style="color: #888; font-size: 0.85em; margin-bottom: 5px;">time</p>
TimeLine(time) == Line("ts", 0, "", time, <<>>)
\* <p>text</p>
NotePara(text) == Line("note", 0, "", text, <<>>)

\* a text that holds the characters style="color: #888 (a saved HTML snippet)
StyledText == "css"

\* line.includes('style="color: #888')
HasTimestampStyle(l) == l.k = "ts" \/ l.text = StyledText

\* line.startsWith('<p>') && !line.includes('style=')
IsNotePara(l) == l.k \in {"note", "p"} /\ l.text # StyledText

RECURSIVE NotesScan(_, _, _, _)
NotesScan(lines, i, inNotesSection, notes) ==
  IF i > Len(lines) THEN notes
  ELSE IF lines[i] = H3("Notes") THEN NotesScan(lines, i + 1, TRUE, notes)
  ELSE IF StartsWithH3(lines[i]) THEN notes
  ELSE IF inNotesSection /\ NonBlank(lines[i])
       THEN IF lines[i].k = "ts" /\ i + 1 <= Len(lines)
            THEN IF IsNotePara(lines[i + 1])
                 THEN NotesScan(lines, i + 2, inNotesSection,
                        Append(notes, [text |-> lines[i + 1].text,
                                       timestamp |-> lines[i].text, lineNumber |-> i]))
                 ELSE NotesScan(lines, i + 1, inNotesSection, notes)
            ELSE IF IsNotePara(lines[i]) /\ lines[i].text # ""
                 THEN NotesScan(lines, i + 1, inNotesSection,
                        Append(notes, [text |-> lines[i].text,
                                       timestamp |-> "", lineNumber |-> i]))
                 ELSE NotesScan(lines, i + 1, inNotesSection, notes)
       ELSE NotesScan(lines, i + 1, inNotesSection, notes)

\* extractNotes
extractNotes(sectionContent) == NotesScan(sectionContent, 1, FALSE, <<>>)

RECURSIVE ReferencesScan(_, _, _, _)
ReferencesScan(lines, i, inReferencesSection, references) ==
  IF i > Len(lines) THEN references
  ELSE IF lines[i] = H3("References")
       THEN ReferencesScan(lines, i + 1, TRUE, references)
  ELSE IF StartsWithH3(lines[i]) THEN references
  ELSE IF inReferencesSection /\ NonBlank(lines[i])
       THEN IF lines[i].k = "ts" /\ i + 1 <= Len(lines)
            THEN IF lines[i + 1].k = "ref"
                 THEN ReferencesScan(lines, i + 2, inReferencesSection,
                        Append(references, [id |-> lines[i + 1].ctx[1], content |-> lines[i + 1].text,
                                            timestamp |-> lines[i].text, lineNumber |-> i]))
                 ELSE ReferencesScan(lines, i + 1, inReferencesSection, references)
            ELSE IF lines[i].k = "ref"
                 THEN ReferencesScan(lines, i + 1, inReferencesSection,
                        Append(references, [id |-> lines[i].ctx[1], content |-> lines[i].text,
                                            timestamp |-> "", lineNumber |-> i]))
                 ELSE ReferencesScan(lines, i + 1, inReferencesSection, references)
       ELSE ReferencesScan(lines, i + 1, inReferencesSection, references)

\* extractReferences
extractReferences(sectionContent) == ReferencesScan(sectionContent, 1, FALSE, <<>>)

\* deleteNoteInSection
deleteNoteInSection(sectionContent, lineNumber) ==
  IF HasTimestampStyle(sectionContent[lineNumber])
  THEN SpliceOut(sectionContent, lineNumber, 2)
  ELSE SpliceOut(sectionContent, lineNumber, 1)

\* deleteReferenceInSection
deleteReferenceInSection(sectionContent, lineNumber) ==
  IF HasTimestampStyle(sectionContent[lineNumber])
  THEN SpliceOut(sectionContent, lineNumber, 2)
  ELSE SpliceOut(sectionContent, lineNumber, 1)

\* section texts around a Notes or a References subsection
ItemInputs ==
  LET NoteLines ==
        { H3("Notes"), H3("Todos"), Blank, TimeLine("t1"), NotePara("a"), NotePara("b") }
      ReferenceLines ==
        { H3("References"), H3("Notes"), Blank, TimeLine("t1"),
          RefMacro("c1", "a"), RefMacro("c2", StyledText) }
  IN UNION {[1..n -> NoteLines] \cup [1..n -> ReferenceLines] : n \in 1..MaxItemLen}

InitItems ==
  /\ files = [m \in Months |-> <<Blank>>]
  /\ day = 1
  /\ ui = "list"
  /\ held \in ItemInputs
  /\ sel = 0
  /\ todo = NoTodo
  /\ selCtx = 0
  /\ issued = {}
  /\ steps = 0
  /\ lastOp = Op("init", "", "", {}, FALSE)

\* d in the notes list: deleteNoteInSection(todaySection, note.lineNumber)
DeleteNote ==
  /\ \E k \in 1..Len(extractNotes(held)) :
       /\ held' = deleteNoteInSection(held, extractNotes(held)[k].lineNumber)
       /\ lastOp' = Op("deleteNote", extractNotes(held)[k].text, "", {}, FALSE)
  /\ UNCHANGED <<files, day, ui, sel, todo, selCtx, issued, steps>>

\* d in the references list: deleteReferenceInSection(todaySection, ref.lineNumber)
DeleteReference ==
  /\ \E k \in 1..Len(extractReferences(held)) :
       /\ held' = deleteReferenceInSection(held, extractReferences(held)[k].lineNumber)
       /\ lastOp' = Op("deleteReference", "", extractReferences(held)[k].id, {}, FALSE)
  /\ UNCHANGED <<files, day, ui, sel, todo, selCtx, issued, steps>>

\* addNote / addRef on the section: the lines addContentToSection hands to
\* replaceTodaySection
AddContent ==
  /\ Len(held) <= MaxItemLen
  /\ \E op \in {"addNote", "addRef"} :
       LET name == IF op = "addNote" THEN "Notes" ELSE "References"
           c == IF op = "addNote" THEN <<RawText("b")>>
                ELSE <<Timestamp, RefMacro("c3", "b")>>
       IN  /\ held' = InsertContent(held, name, c)
           /\ lastOp' = Op(op, "b", "c3", {}, FALSE)
  /\ UNCHANGED <<files, day, ui, sel, todo, selCtx, issued, steps>>

NextItems == DeleteNote \/ DeleteReference \/ AddContent

SpecItems == InitItems /\ [][NextItems]_vars

\* ------------------------------------------- generateUniqueThreeWordId
\* In this specification held is the sequence of candidates drawn so far (the
\* loop counter i is its length), selCtx the number of calls of checkExists,
\* sel the maxAttempts argument, and issued the identifiers for which
\* checkExists answers true.

\* one pass of the loop body on candidate id, exists = await checkExists(id)
Attempt_IgnoresCheck(id, exists) ==
  Op("returned", "", id, {}, exists)

Attempt(id, exists) ==
  IF ~exists THEN Op("returned", "", id, {}, exists)
             ELSE Op("running", "", id, {}, exists)

InitGenerate ==
  /\ files = [m \in Months |-> <<Blank>>]
  /\ day = 1
  /\ ui = "list"
  /\ held = <<>>
  /\ sel \in 0..MaxAttempts
  /\ todo = NoTodo
  /\ selCtx = 0
  /\ issued \in SUBSET CtxIds
  /\ steps = 0
  /\ lastOp = Op("running", "", "", {}, FALSE)

\* for (let i = 0; i < maxAttempts; i++) { id = generateThreeWordId(); ... }
Draw ==
  /\ lastOp.op = "running"
  /\ Len(held) < sel
  /\ \E id \in CtxIds :
       /\ held' = Append(held, id)
       /\ selCtx' = selCtx + 1
       /\ lastOp' = Attempt(id, id \in issued)
  /\ UNCHANGED <<files, day, ui, sel, todo, issued, steps>>

\* throw new Error(`Unable to generate unique ID after ${maxAttempts} attempts`)
Throw ==
  /\ lastOp.op = "running"
  /\ ~(Len(held) < sel)
  /\ lastOp' = Op("threw", "", "", {}, FALSE)
  /\ UNCHANGED <<files, day, ui, held, sel, todo, selCtx, issued, steps>>

NextGenerate == Draw \/ Throw

SpecGenerate == InitGenerate /\ [][NextGenerate]_vars

\* --------------------------------------------------------------- sync
\* getAllMonthlyNotesFiles: the monthly files found in the notes directory
\* (a month never written has no file)
getAllMonthlyNotesFiles(fs) == {m \in Months : fs[m] # <<Blank>>}

\* syncToConfluence / autoSyncToConfluence: configured is the configuration
\* test, connected the answer of testConnection, failed the files whose
\* createOrUpdatePage throws; each file is read and its content is sent
syncToConfluence_WritesBack(fs, configured, connected, failed) ==
  LET pages == IF configured /\ connected THEN getAllMonthlyNotesFiles(fs) \ failed ELSE {}
  IN  [fs |-> [m \in Months |-> IF m \in pages THEN fs[m] \o <<Blank>> ELSE fs[m]],
       syncedPages |-> pages,
       outcome |-> "written back"]

syncToConfluence(fs, configured, connected, failed) ==
  LET toSync == getAllMonthlyNotesFiles(fs)
  IN  IF ~configured THEN [fs |-> fs, syncedPages |-> {}, outcome |-> "not configured"]
      ELSE IF ~connected THEN [fs |-> fs, syncedPages |-> {}, outcome |-> "not connected"]
      ELSE IF toSync = {} THEN [fs |-> fs, syncedPages |-> {}, outcome |-> "no files"]
      ELSE [fs |-> fs, syncedPages |-> toSync \ failed,
            outcome |-> IF toSync \cap failed = {} THEN "synced" ELSE "page failed"]

\* wdidt sync, and the sync that ends a command (performAutoSync, silent or not)
Sync ==
  /\ Step
  /\ ui = "cli"
  /\ \E entry \in {"syncToConfluence", "autoSyncToConfluence", "performAutoSync"},
        configured \in BOOLEAN, connected \in BOOLEAN, failed \in SUBSET Months :
       LET r == syncToConfluence(files, configured, connected, failed)
       IN  /\ files' = r.fs
           /\ lastOp' = Op(entry, r.outcome, "", r.syncedPages, FALSE)
  /\ UNCHANGED <<day, ui, held, sel, todo, selCtx, issued>>

NextSync == Tick \/ AddNote \/ AddRef \/ Sync

SpecSync == Init /\ [][NextSync]_vars

\* ------------------------------------------ two processes on one file
\* Process A runs addContentToSection('Notes', "a") in its two file accesses;
\* process B writes in between. In this specification held is the section
\* text A read, ui = "writing" while A is between its read and its write, and
\* issued collects what B wrote since A's read ("today", "other").

\* A: const todaySection = await initializeTodaySection()
ARead ==
  /\ Step
  /\ ui = "cli"
  /\ files' = initializeTodaySection(files, day).fs
  /\ held' = initializeTodaySection(files, day).section
  /\ ui' = "writing"
  /\ issued' = {}
  /\ lastOp' = Op("A:read", "", "", {}, FALSE)
  /\ UNCHANGED <<day, sel, todo, selCtx>>

\* A: the edit of the lines read, then replaceTodaySection(lines.join('\n'))
AWrite ==
  /\ Step
  /\ ui = "writing"
  /\ files' = replaceTodaySection(files, day, InsertContent(held, "Notes", <<RawText("a")>>))
  /\ ui' = "cli"
  /\ issued' = {}
  /\ lastOp' = Op("A:write", "a", "", issued, FALSE)
  /\ UNCHANGED <<day, held, sel, todo, selCtx>>

\* B: a whole wdidt note "b" on today's region
BWriteToday ==
  /\ Step
  /\ files' = addNote(files, day, "b")
  /\ issued' = issued \cup {"today"}
  /\ lastOp' = Op("B:today", "b", "", {}, FALSE)
  /\ UNCHANGED <<day, ui, held, sel, todo, selCtx>>

\* B: an external write that adds a line to the last day region of the file,
\* a region of an earlier day
BWriteOther ==
  /\ Step
  /\ \E m \in {getCurrentMonthString(day)} :
       /\ \E i \in 1..Len(files[m]) : IsH2(files[m][i]) /\ files[m][i].n < day
       /\ (\A i, j \in 1..Len(files[m]) :
             (IsH2(files[m][i]) /\ files[m][j] = H2(day)) => j <= i) = TRUE
       /\ files' = [files EXCEPT ![m] =
                      SubSeq(files[m], 1, Len(files[m]) - 1)
                        \o <<RawText("b"), files[m][Len(files[m])]>>]
  /\ issued' = issued \cup {"other"}
  /\ lastOp' = Op("B:other", "b", "", {}, FALSE)
  /\ UNCHANGED <<day, ui, held, sel, todo, selCtx>>

NextRace == ARead \/ AWrite \/ BWriteToday \/ BWriteOther

SpecRace == Init /\ [][NextRace]_vars

\* ------------------------------------- the three interactive list managers
\* showTodoList, showNotesList and showRefsList run the same loop.  In this
\* specification todo holds the manager (kind) and the item list its loop
\* parsed at the top of the current iteration (items), held the section that
\* iteration read, sel its selectedIndex, and lastOp.ids the line number of
\* the item handed to a handler.

\* the adjustment of selectedIndex after the delete handler returned
AfterDelete_NoFloor(selectedIndex, len) ==
  IF selectedIndex >= len - 1 THEN selectedIndex - 1 ELSE selectedIndex

AfterDelete(selectedIndex, len) ==
  IF selectedIndex >= len - 1 /\ selectedIndex > 0 THEN selectedIndex - 1 ELSE selectedIndex

\* the top of the loop: read today's section, parse the items of the manager
\* and bring selectedIndex back into a non-empty list
showListTop(kind, fs, d, selectedIndex) ==
  LET r == initializeTodaySection(fs, d)
      items == IF kind = "todos" THEN extractTodos(r.section)
               ELSE IF kind = "notes" THEN extractNotes(r.section)
               ELSE extractReferences(r.section)
  IN  [fs |-> r.fs, section |-> r.section,
       list |-> [kind |-> kind, items |-> items],
       selectedIndex |-> ClampIndex(selectedIndex, Len(items))]

\* a manager has been opened on a monthly file whose region of today holds
\* n todos, n references and n notes (notes as editNoteInteractive leaves
\* them, with and without a time line), or on a new file
InitLists ==
  /\ day = 1
  /\ \E kind \in {"todos", "notes", "refs"}, n \in 0..2, fresh \in BOOLEAN :
       LET todos == SubSeq(<<Task(1, "incomplete", "a", <<>>), Task(2, "complete", "b", <<>>)>>, 1, n)
           refs == SubSeq(<<Timestamp, RefMacro("c1", "a"), RefMacro("c2", "b")>>, 1, IF n = 0 THEN 0 ELSE n + 1)
           notes == SubSeq(<<TimeLine("t"), NotePara("a"), NotePara("b")>>, 1, IF n = 0 THEN 0 ELSE n + 1)
           region == << H2(1), Blank, H3("Todos"), TaskListOpen >> \o todos
                     \o << TaskListClose, Blank, H3("Context"), Blank, Blank,
                           H3("References") >> \o refs \o << Blank, H3("Notes") >> \o notes
                     \o << Blank >>
           content == IF fresh THEN <<Blank>> ELSE region \o <<Hr, Blank>> \o YesterdayRegion
           top == showListTop(kind, [m \in Months |-> IF m = 1 THEN content ELSE <<Blank>>], 1, 0)
       IN  /\ fresh => n = 0
           /\ files = top.fs
           /\ held = top.section
           /\ todo = top.list
           /\ sel = top.selectedIndex
  /\ ui = "list"
  /\ selCtx = 0
  /\ issued = {}
  /\ steps = 0
  /\ lastOp = Op("init", "", "", {}, FALSE)

\* UP, k, DOWN, j
Navigate ==
  /\ Step
  /\ ui = "list"
  /\ \E key \in {"UP", "DOWN"} :
       LET len == Len(todo.items)
           idx == IF len = 0 THEN sel
                  ELSE IF key = "UP" THEN (IF sel - 1 < 0 THEN 0 ELSE sel - 1)
                  ELSE (IF sel + 1 > len - 1 THEN len - 1 ELSE sel + 1)
           top == showListTop(todo.kind, files, day, idx)
       IN  /\ files' = top.fs /\ held' = top.section
           /\ todo' = top.list /\ sel' = top.selectedIndex
           /\ lastOp' = Op(key, "", "", {}, FALSE)
  /\ UNCHANGED <<day, ui, selCtx, issued>>

\* e, SPACE (todos) and v (references): the handler of the selected item,
\* which gets the item and the section of this iteration
HandleItem ==
  /\ Step
  /\ ui = "list"
  /\ Len(todo.items) > 0 /\ sel < Len(todo.items)
  /\ \E key \in {"e", "SPACE", "v"}, newText \in Texts :
       LET item == todo.items[sel + 1]
           n == item.lineNumber
           at == IF HasTimestampStyle(held[n]) THEN n + 1 ELSE n
           fs == IF key = "v" THEN files
                 ELSE IF key = "SPACE"
                 THEN replaceTodaySection(files, day,
                        updateTodoInSection(held, n, ~item.checked))
                 ELSE IF todo.kind = "todos"
                 THEN editTodoInteractive(files, day, item, held, newText)
                 ELSE IF todo.kind = "notes"
                 THEN replaceTodaySection(files, day,
                        [held EXCEPT ![at] = NotePara(newText)])
                 ELSE replaceTodaySection(files, day,
                        [held EXCEPT ![at] = RefMacro(item.id, newText)])
           top == showListTop(todo.kind, fs, day, sel)
       IN  /\ key = "SPACE" => todo.kind = "todos"
           /\ key = "v" => todo.kind = "refs"
           /\ key # "e" => newText = "a"
           /\ files' = top.fs /\ held' = top.section
           /\ todo' = top.list /\ sel' = top.selectedIndex
           /\ lastOp' = Op(key, IF key = "e" THEN newText ELSE "", "", {n}, FALSE)
  /\ UNCHANGED <<day, ui, selCtx, issued>>

\* d: the delete handler of the selected item, confirmed or declined
DeleteItem ==
  /\ Step
  /\ ui = "list"
  /\ Len(todo.items) > 0 /\ sel < Len(todo.items)
  /\ \E confirm \in BOOLEAN :
       LET item == todo.items[sel + 1]
           n == item.lineNumber
           fs == IF todo.kind = "todos"
                 THEN deleteTodoInteractive(files, day, item, held, confirm)
                 ELSE IF ~confirm THEN files
                 ELSE IF todo.kind = "notes"
                 THEN replaceTodaySection(files, day, deleteNoteInSection(held, n))
                 ELSE replaceTodaySection(files, day, deleteReferenceInSection(held, n))
           top == showListTop(todo.kind, fs, day, AfterDelete(sel, Len(todo.items)))
       IN  /\ files' = top.fs /\ held' = top.section
           /\ todo' = top.list /\ sel' = top.selectedIndex
           /\ lastOp' = Op("d", "", "", {n}, confirm)
  /\ UNCHANGED <<day, ui, selCtx, issued>>

\* a: addTodoInteractive, addNote or addRef
AddItem ==
  /\ Step
  /\ ui = "list"
  /\ \/ \E text \in AddedTexts, cid \in Candidates \cup {""} :
          LET r == IF todo.kind = "todos"
                   THEN addTodoInteractive(files, day, text, cid, text)
                   ELSE IF todo.kind = "notes"
                   THEN [fs |-> addNote(files, day, text), ids |-> {}]
                   ELSE [fs |-> addRef(files, day, cid, text), ids |-> {}]
              top == showListTop(todo.kind, r.fs, day, sel)
          IN  /\ cid # "" => ~idExistsInAnyFile(files, cid)
              /\ cid = "" => todo.kind # "refs"
              /\ todo.kind = "notes" => cid = ""
              /\ files' = top.fs /\ held' = top.section
              /\ todo' = top.list /\ sel' = top.selectedIndex
              /\ ui' = "list"
              /\ lastOp' = Op("a", text, cid, r.ids, FALSE)
     \/ \E text \in AddedTexts :
          \* the identifier generation throws and nothing catches the error
          /\ todo.kind # "notes"
          /\ Exhaustible(files)
          /\ ui' = "cli" /\ held' = <<>> /\ sel' = 0
          /\ lastOp' = Op("aFailed", text, "", {}, FALSE)
          /\ UNCHANGED <<files, todo>>
  /\ UNCHANGED <<day, selCtx, issued>>

NextLists == Navigate \/ HandleItem \/ DeleteItem \/ AddItem \/ Escape

SpecLists == InitLists /\ [][NextLists]_vars

\* =================================================================== claims
\* the day regions of a content: from each day heading to the next day
\* heading, rule line or end of content
RegionAt(content, i) ==
  LET e == FirstIdx(content, i + 1, {"h2", "hr"})
  IN  Slice(content, i, IF e = 0 THEN Len(content) + 1 ELSE e)

DayRegions(content) == {RegionAt(content, i) : i \in {j \in 1..Len(content) : IsH2(content[j])}}

NonBlankLines(region) == SelectSeq(region, NonBlank)

\* today's region as the file holds it, <<>> when the file has none
TodayOnDisk == getTodaySection(readNotesFile(files, day), day).content

\* C1: every operation leaves each day region other than today's in the
\* monthly file, with the same non-blank lines in the same order, also when
\* today's region is absent at the moment replaceTodaySection runs.
C1_OtherDaysKept ==
  [][\A m \in Months : \A r \in DayRegions(files[m]) :
        r[1] # H2(day) =>
          \E r2 \in DayRegions(files'[m]) : NonBlankLines(r2) = NonBlankLines(r)]_vars

\* the number of day headings of day d in a content
HeadingCount(content, d) == Cardinality({i \in 1..Len(content) : content[i] = H2(d)})

\* C2: the monthly file never holds two day regions with the same heading.
C2_OneRegionPerDay ==
  \A m \in Months : \A d \in Days : HeadingCount(files[m], d) <= 1

\* C3: a second initializeTodaySection right after a first one writes nothing
\* that changes the file, and the file then holds exactly one region for today.
C3_InitIdempotent ==
  \A first \in {initializeTodaySection(files, day)} :
     \A second \in {initializeTodaySection(first.fs, day)} :
        /\ second.fs = first.fs
        /\ HeadingCount(readNotesFile(second.fs, day), day) = 1

\* listTodos has just created today's region above the regions of earlier days
C3_Witness ==
  /\ lastOp.op = "listTodos"
  /\ held = NewSection(day)
  /\ Len(readNotesFile(files, day)) > Len(NewSection(day))
  /\ TodayOnDisk # <<>>

\* the lines that carry a numeric todo id, in any of the three wrappers
IsTodoLine(l) == l.k \in {"task", "li_task", "li_inline"}

\* C4: no two todo items of a monthly file carry the same numeric id.
C4_UniqueIdsInFile ==
  \A m \in Months : \A i, j \in 1..Len(files[m]) :
     (i < j /\ IsTodoLine(files[m][i]) /\ IsTodoLine(files[m][j]))
        => files[m][i].n # files[m][j].n

\* C5: the id getNextTodoId returns for today's section is greater than every
\* todo id issued earlier in the file, deleted todos included.
C5_IdsNeverReused ==
  \A p \in issued :
     p[1] = getCurrentMonthString(day)
        => getNextTodoId(initializeTodaySection(files, day).section) > p[2]

\* a content holds the context block addContext writes for contextId
HasContextBlock(content, contextId) ==
  \E i \in 1..Len(content) : content[i].k = "info" /\ content[i].ctx = <<contextId>>

\* a content holds a todo line that links to contextId
HasLinkedTodo(content, contextId) ==
  \E i \in 1..Len(content) : IsTodoLine(content[i]) /\ Includes(content[i].ctx, contextId)

\* C6: no operation writes back region text it read before an earlier write of
\* its own: when addTodoInteractive (with a context) or
\* addContextToTodoInteractive has completed, the monthly file holds both the
\* context block addContext wrote for the generated id and a todo line that
\* links to that id.
C6_NoStaleWriteBack ==
  (lastOp.op \in {"addTodoInteractive", "addContextToTodo"} /\ lastOp.cid # "")
     => /\ HasContextBlock(readNotesFile(files, day), lastOp.cid)
        /\ HasLinkedTodo(readNotesFile(files, day), lastOp.cid)

\* C7: updateTodoInSection(section, handle, b) followed by extractTodos yields
\* the todos of before, except that the todo on the addressed line has
\* checked = b; its id, text and contextIds, every other todo and every other
\* line are as before; a handle whose line is no todo line leaves the section
\* as it was.
C7_SetCheckedOnly ==
  \A before \in {extractTodos(held)} :
     \A n \in 0..(Len(held) + 1) : \A b \in BOOLEAN :
        \A updated \in {updateTodoInSection(held, n, b)} :
           IF n \in 1..Len(held) /\ TodoMatch(held[n])
           THEN \A after \in {extractTodos(updated)} :
                   /\ Len(updated) = Len(held)
                   /\ \A i \in 1..Len(held) : i # n => updated[i] = held[i]
                   /\ Len(after) = Len(before)
                   /\ \A j \in 1..Len(before) :
                        after[j] = IF before[j].lineNumber = n
                                   THEN [before[j] EXCEPT !.checked = b]
                                   ELSE before[j]
           ELSE /\ updated = held
                /\ \A j \in 1..Len(before) : before[j].lineNumber # n

\* todo 1, the first of two parsed todos, has just been set to checked
C7_Witness ==
  /\ lastOp = Op("updateTodoInSection", "", "", {2}, TRUE)
  /\ LET todos == extractTodos(held)
     IN  /\ Len(todos) = 2
         /\ todos[1] = [checked |-> TRUE, text |-> "a", lineNumber |-> 2,
                        contextIds |-> <<"c1">>, todoId |-> 1]
         /\ todos[2].contextIds = <<"c1", "c2">>

\* C8: editTodoInteractive with a new text, followed by a re-parse, yields at
\* the same position a todo with the new text and the same checked state, id
\* and ordered contextIds; the other todos are as before.
C8_EditChangesOnlyText ==
  [][lastOp'.op = "edit" =>
       LET before == Todos
           after == extractTodos(held')
       IN  /\ Len(after) = Len(before)
           /\ \A j \in 1..Len(before) :
                after[j] = IF j = sel + 1
                           THEN [before[j] EXCEPT !.text = lastOp'.text]
                           ELSE before[j]]_vars

\* the todos of a section that link to contextId, by id
Referencing(sectionContent, contextId) ==
  {getTodosReferencingContext(sectionContent, contextId)[j].todoId :
     j \in 1..Len(getTodosReferencingContext(sectionContent, contextId))}

\* C9: after addContextToTodoInteractive links context c to todo t,
\* getTodosReferencingContext(today, c) includes t; after
\* deleteContextFromTodoInteractive unlinks c from t it includes t no more;
\* every other link of every todo is as before.
C9_LinkSymmetry ==
  [][(lastOp'.op \in {"addContextToTodo", "deleteContextFromTodo"}
      /\ (lastOp'.op = "deleteContextFromTodo" => lastOp'.confirm))
       => LET c == lastOp'.cid
              t == Current.todoId
          IN  /\ (lastOp'.op = "addContextToTodo") => t \in Referencing(held', c)
              /\ (lastOp'.op = "deleteContextFromTodo") => t \notin Referencing(held', c)
              /\ \A x \in CtxIds :
                   x # c => Referencing(held', x) = Referencing(held, x)
              /\ Referencing(held', c) \ {t} = Referencing(held, c) \ {t}]_vars

\* the lines of the Todos subsection that hold a parsed todo linking to
\* contextId: the nearest subsection heading above them is <h3>Todos</h3>
LinkedLines(region, contextId) ==
  {i \in 1..Len(region) :
     /\ TodoMatch(region[i])
     /\ Includes(region[i].ctx, contextId)
     /\ \E h \in 1..(i - 1) :
          /\ region[h] = H3("Todos")
          /\ \A k \in (h + 1)..(i - 1) : ~StartsWithH3(region[k])}

TodayBefore == initializeTodaySection(files, day).section

\* today's region in the file an operation leaves
TodayAfter == getTodaySection(readNotesFile(files', day), day).content

IsContextBlock(l) == l.k = "info"

\* C11: deleteContext(id) removes the context block titled [id] and nothing
\* else: every other context block of today's section, above or below it,
\* is still there with its text, and the todo lines are as before, dangling
\* links included.
C11_DeleteOnlyThatBlock ==
  [][lastOp'.op = "deleteContext" =>
       /\ \A i \in 1..Len(TodayBefore) :
            (IsContextBlock(TodayBefore[i]) /\ TodayBefore[i].ctx # <<lastOp'.cid>>)
               => \E j \in 1..Len(TodayAfter) : TodayAfter[j] = TodayBefore[i]
       /\ \A j \in 1..Len(TodayAfter) :
            IsContextBlock(TodayAfter[j]) => TodayAfter[j].ctx # <<lastOp'.cid>>
       /\ SelectSeq(TodayAfter, IsTodoLine) = SelectSeq(TodayBefore, IsTodoLine)]_vars

\* C12: after deleteContext(c) on a region where two todos link to context
\* c, getTodosReferencingContext(region, c) returns the empty sequence.
C12_NoReferencesAfterDelete ==
  [][(lastOp'.op = "deleteContext"
      /\ Len(getTodosReferencingContext(TodayBefore, lastOp'.cid)) = 2)
       => getTodosReferencingContext(TodayAfter, lastOp'.cid) = <<>>]_vars

\* a parsed todo without the line it was found on
Item(t) == [checked |-> t.checked, text |-> t.text, contextIds |-> t.contextIds,
            todoId |-> t.todoId]

\* C13: after addTodo(text), extractTodos on today's region returns one more
\* todo than before: the new one has the given text, checked = false and the
\* id getNextTodoId returned; the todos of before are all returned unchanged.
C13_AddedTodoIsParsed ==
  [][lastOp'.op = "addTodo" =>
       \A before \in {extractTodos(TodayBefore)} :
          \A after \in {extractTodos(TodayAfter)} :
             /\ Len(after) = Len(before) + 1
             /\ \E k \in 1..Len(after) :
                  /\ after[k].text = lastOp'.text
                  /\ ~after[k].checked
                  /\ {after[k].todoId} = lastOp'.ids
                  /\ \A j \in 1..Len(before) :
                       Item(before[j]) = Item(after[IF j < k THEN j ELSE j + 1])]_vars

\* C14: deleteNoteInSection / deleteReferenceInSection with the lineNumber of
\* a parsed item removes the item's content line, and its timestamp line when
\* it has one (a timestamp of "" is none), and nothing else; re-parsing returns
\* the remaining items with the same text, id, timestamp and order.
C14_DeleteExactlyTheItem ==
  LET Without(seq, k) == SubSeq(seq, 1, k - 1) \o SubSeq(seq, k + 1, Len(seq))
      NoteItems(notes) ==
        [j \in 1..Len(notes) |-> [text |-> notes[j].text, timestamp |-> notes[j].timestamp]]
      ReferenceItems(refs) ==
        [j \in 1..Len(refs) |->
           [id |-> refs[j].id, content |-> refs[j].content, timestamp |-> refs[j].timestamp]]
      LinesRemoved(before, after, at, count) ==
        /\ Len(after) = Len(before) - count
        /\ \A i \in 1..Len(after) : after[i] = before[IF i < at THEN i ELSE i + count]
  IN
  /\ \A notes \in {extractNotes(held)} : \A k \in 1..Len(notes) :
        \A updated \in {deleteNoteInSection(held, notes[k].lineNumber)} :
           /\ LinesRemoved(held, updated, notes[k].lineNumber,
                           IF notes[k].timestamp # "" THEN 2 ELSE 1)
           /\ NoteItems(extractNotes(updated)) = Without(NoteItems(notes), k)
  /\ \A refs \in {extractReferences(held)} : \A k \in 1..Len(refs) :
        \A updated \in {deleteReferenceInSection(held, refs[k].lineNumber)} :
           /\ LinesRemoved(held, updated, refs[k].lineNumber,
                           IF refs[k].timestamp # "" THEN 2 ELSE 1)
           /\ ReferenceItems(extractReferences(updated)) = Without(ReferenceItems(refs), k)

\* C15: generateUniqueThreeWordId calls checkExists once per candidate drawn
\* and never draws more than maxAttempts candidates; when it returns, it
\* returns the last candidate drawn, which is the first one checkExists
\* rejects; it throws only after exactly maxAttempts draws that all collide.
C15_FirstFreeCandidate ==
  /\ Len(held) <= sel
  /\ selCtx = Len(held)
  /\ lastOp.op \in {"running", "threw"} => \A j \in 1..Len(held) : held[j] \in issued
  /\ lastOp.op = "returned" =>
       /\ held # <<>>
       /\ lastOp.cid = held[Len(held)]
       /\ lastOp.cid \notin issued
       /\ \A j \in 1..(Len(held) - 1) : held[j] \in issued
  /\ lastOp.op = "threw" => Len(held) = sel

\* the last permitted draw is the first free candidate and is returned
C15_Witness ==
  /\ lastOp.op = "returned"
  /\ sel = MaxAttempts
  /\ Len(held) = MaxAttempts
  /\ \A j \in 1..(MaxAttempts - 1) : held[j] \in issued

\* C16: when identifier generation is exhausted inside addTodo with context,
\* addRef, the interactive add-todo-with-context or add-context-to-todo, the
\* monthly files after the failure equal the files before the operation.
C16_NoPartialWrite ==
  [][lastOp'.op \in {"addTodoFailed", "addRefFailed",
                     "addTodoInteractiveFailed", "addContextToTodoFailed"}
       => files' = files]_vars

\* C17: no two context blocks, and no two reference entries, anywhere in the
\* monthly files carry the same identifier.
C17_IdsGloballyUnique ==
  \A kind \in {"info", "ref"} :
    \A m1, m2 \in Months : \A i \in 1..Len(files[m1]) : \A j \in 1..Len(files[m2]) :
       ( /\ files[m1][i].k = kind /\ files[m2][j].k = kind
         /\ files[m1][i].ctx = files[m2][j].ctx )
       => (m1 = m2 /\ i = j)

\* C18: a sync, whatever its entry point and whatever the remote calls
\* answer, leaves every monthly file with the content it had when it started.
C18_SyncReadsOnly ==
  [][lastOp'.op \in {"syncToConfluence", "autoSyncToConfluence", "performAutoSync"}
       => files' = files]_vars

\* a sync that ended a command sent one monthly file and failed on the other
C18_Witness ==
  /\ lastOp.op = "performAutoSync"
  /\ lastOp.text = "page failed"
  /\ lastOp.ids # {}

\* C19: in every monthly file the day headings appear in strictly descending
\* date order, and between two consecutive day headings there is exactly one
\* <hr> line.
C19_RegionsOrderedAndSeparated ==
  \A m \in Months :
    \A i, j \in 1..Len(files[m]) :
      ( /\ i < j /\ IsH2(files[m][i]) /\ IsH2(files[m][j])
        /\ \A k \in (i + 1)..(j - 1) : ~IsH2(files[m][k]) )
      => /\ files[m][i].n > files[m][j].n
         /\ Cardinality({k \in (i + 1)..(j - 1) : files[m][k] = Hr}) = 1

\* C20: getNextTodoId returns one more than the greatest numeric ID among the
\* todo lines of the Todos subsection, checked or not, and 1 when no todo
\* line there carries an ID; lines outside the Todos subsection do not count.
C20_NextIdAboveEveryTodo ==
  LET InTodos(i) ==
        \E j \in 1..(i - 1) :
           /\ held[j] = H3("Todos")
           /\ \A k \in (j + 1)..i : ~StartsWithH3(held[k])
      ids == {held[i].n : i \in {j \in 1..Len(held) : IsTodoLine(held[j]) /\ InTodos(j)}}
  IN  getNextTodoId(held) =
        IF ids = {} THEN 1 ELSE 1 + (CHOOSE x \in ids : \A y \in ids : y <= x)

\* C21: after addContext(id, text) with an id no block of today's region
\* carries yet, getContextById(today, id) returns text, getAllContexts(today)
\* holds an entry {id, text}, and every entry it held before is still there.
C21_ContextRoundTrip ==
  [][( /\ lastOp'.op = "addContext"
       /\ \A i \in 1..Len(TodayBefore) : ~TitleMatch(TodayBefore[i], lastOp'.cid) )
       => \A all \in {getAllContexts(TodayAfter)} :
            /\ getContextById(TodayAfter, lastOp'.cid) = <<lastOp'.text>>
            /\ \E j \in 1..Len(all) : all[j] = [id |-> lastOp'.cid, text |-> <<lastOp'.text>>]
            /\ \A before \in {getAllContexts(TodayBefore)} : \A k \in 1..Len(before) :
                  \E j \in 1..Len(all) : all[j] = before[k]]_vars

\* C22: updateContext(id, newText) on a region with one block titled [id]
\* changes the text of that block to newText and leaves the sequence of
\* context blocks otherwise as it was (same number, same ids, same texts);
\* with no block titled [id] in a file that holds today's region, the file
\* is left as it was.
C22_UpdateOnlyThatBlock ==
  [][lastOp'.op = "updateContext" =>
       \A before \in {SelectSeq(TodayBefore, IsContextBlock)} :
         \A titled \in {{k \in 1..Len(before) : before[k].ctx = <<lastOp'.cid>>}} :
           /\ (titled = {} /\ TodayOnDisk # <<>>) => files' = files
           /\ Cardinality(titled) = 1 =>
                SelectSeq(TodayAfter, IsContextBlock) =
                  [k \in 1..Len(before) |->
                     IF k \in titled THEN InfoPanel(lastOp'.cid, lastOp'.text)
                     ELSE before[k]]]_vars

\* C23: idExistsInAnyFile(id) is true exactly when some monthly file holds
\* id as the title of a context block, as a context link of a todo line, or
\* as the data-ref-id of a reference.
C23_ExistsIffEmbedded ==
  LET Embedded(id) ==
        \E m \in Months : \E i \in 1..Len(files[m]) :
           \/ files[m][i].k \in {"info", "ref"} /\ files[m][i].ctx = <<id>>
           \/ IsTodoLine(files[m][i]) /\ Includes(files[m][i].ctx, id)
  IN  \A id \in CtxIds : idExistsInAnyFile(files, id) <=> Embedded(id)

C25_CarryoverCopiesUnchecked ==
  [][lastOp'.op = "carryover" =>
       \A content \in {readNotesFile(initializeTodaySection(files, day).fs, day)} :
       \A p \in {FirstIdx(content, IndexOf(content, H2(day)) + 1, {"h2"})} :
       \A source \in {IF p = 0 THEN <<>>
                      ELSE SelectSeq(extractTodos(RegionAt(content, p)), NotChecked)} :
       \A before \in {extractTodos(TodayBefore)} :
       \A after \in {extractTodos(TodayAfter)} :
       \A first \in {getNextTodoId(TodayBefore)} :
         /\ Len(after) = Len(before) + Len(source)
         /\ \A j \in 1..Len(before) : Item(after[j]) = Item(before[j])
         /\ \A j \in 1..Len(source) :
              Item(after[Len(before) + j]) =
                [checked |-> FALSE, text |-> source[j].text,
                 contextIds |-> source[j].contextIds, todoId |-> first + j - 1]
         /\ \A i, j \in 1..Len(TodayAfter) :
              ( /\ IsTodoLine(TodayAfter[i]) /\ IsTodoLine(TodayAfter[j])
                /\ TodayAfter[i].n = TodayAfter[j].n ) => i = j]_vars

C27_SameTextTwice ==
  \A first \in {initializeTodaySection(files, day)} :
     getTodaySection(readNotesFile(files, day), day) = NoSection
       => initializeTodaySection(first.fs, day).section = first.section

\* C28: on a section with a Todos heading and no list-start or list-end
\* line, the edit of addTodo and of carryoverTodos puts the new todo line
\* inside the Todos subsection: behind the Todos heading, with no other
\* subsection heading between that heading and the new line.
C28_InsertedInsideTodos ==
  [][( /\ lastOp'.op \in {"addTodo", "carryoverTodos"}
       /\ \E i \in 1..Len(held) : held[i] = H3("Todos")
       /\ \A i \in 1..Len(held) :
            held[i] \notin {UlOpen, UlClose, TaskListOpen, TaskListClose} )
       => \A new \in {IF lastOp'.op = "addTodo" THEN LiInline(getNextTodoId(held), "b", <<>>)
                      ELSE Task(getNextTodoId(held), "incomplete", "b", <<>>)} :
            \E p \in 1..Len(held') :
               /\ held' = SubSeq(held, 1, p - 1) \o <<new>> \o SubSeq(held, p, Len(held))
               /\ \E h \in 1..(p - 1) :
                     /\ held'[h] = H3("Todos")
                     /\ \A k \in (h + 1)..p : ~StartsWithH3(held'[k])]_vars

\* C29: within today's region todo ids never collide: after any sequence of
\* additions, carryovers, toggles, text edits and deletions, no two todo
\* lines that are in today's region at the same time carry the same numeric id.
C29_TodayIdsDistinct ==
  \A region \in {TodayOnDisk} :
    \A i, j \in 1..Len(region) :
       (IsTodoLine(region[i]) /\ IsTodoLine(region[j]) /\ region[i].n = region[j].n)
          => i = j

\* C30: in the interactive notes, references and todo managers the selection
\* index is never negative, and whenever an edit, delete, toggle or view
\* handler runs the index is smaller than the length of the item list parsed
\* from the file in the same loop iteration, and the handler gets the item
\* of that list at the index.
C30_IndexInsideCurrentList ==
  [][ /\ sel >= 0 /\ sel' >= 0
      /\ lastOp'.op \in {"e", "SPACE", "v", "d"} =>
           \A now \in {showListTop(todo.kind, files, day, sel).list.items} :
              /\ todo.items = now
              /\ sel < Len(now)
              /\ lastOp'.ids = {now[sel + 1].lineNumber} ]_vars

\* the only item of a list has been deleted and the loop shows the empty list
C30_Witness ==
  /\ ui = "list"
  /\ lastOp.op = "d" /\ lastOp.confirm
  /\ todo.items = <<>>
  /\ sel = 0

====
